---- MODULE Spec2Model ----
(***************************************************************************)
(* Room lifecycle and membership state machine of the theme-tier server:   *)
(* the socket event handlers registered by gameHandlers(io, socket), the   *)
(* in-memory room store, the card allocator and the deferred eviction      *)
(* timer scheduled by the disconnect handler.                              *)
(*                                                                         *)
(* A JavaScript Map is a sequence of entries [k, v] in insertion order.    *)
(* An optional value (undefined / null) is the empty set, a present value  *)
(* x is {x}.  Strings that the code trims or compares are sequences of     *)
(* one-character strings.  A value of Date.now() is kept as the instant it *)
(* was read at: the only one ever stored is T(s), the instant connection s *)
(* disconnected, written {s}; durations are in milliseconds.               *)
(* The handler of request_card_redistribution only reads the store and is  *)
(* left out; lastSeen and socket.data.playerName are written and never     *)
(* read, and are left out too.                                             *)
(***************************************************************************)
EXTENDS Integers, Sequences, FiniteSets, TLC

\* ---------------------------------------------------------------- bounds
MaxSock == 3        \* connections the transport has accepted
MaxRooms == 1       \* room ids the id generator returns, each one once
MaxRepeat == 1      \* membership events of a run that can be repeated with effect
RandDen == 2        \* Math.random() returns d / RandDen, d in 0..RandDen-1
SeedLen == 1        \* random draws of one allocation repeat with this period

\* ------------------------------------------------------ program constants
UniverseSize == 100     \* Array.from({ length: 100 }, ...)
GraceMs == 120000       \* setTimeout(..., 120000) and the guard > 120000

Sockets == 1..MaxSock
RoomIds == 1..MaxRooms
Seeds == [0..(SeedLen - 1) -> 0..(RandDen - 1)]

\* raw strings a client can send as playerName / theme
RawNames == { <<>>, <<" ">>, <<"a">>, <<"a", " ">>, <<"b">> }
RawThemes == { <<" ">>, <<"t", " ">> }
\* names a client can send to the handlers that look a participant up by
\* name (they compare the name as it is sent)
LookupNames == { <<>>, <<"a">>, <<"b">> }

VARIABLES rooms,      \* the store: room id -> Room, for the ids it holds
          sdata,      \* socket.data.roomId of each connection
          status,     \* each connection: "open" or "closed"
          groups,     \* socket.join: the broadcast groups of each connection
          timers,     \* pending eviction timers
          issued,     \* how many room ids uuidv4() has returned
          spent,      \* how many repeatable events have taken effect
          joinOrder,  \* history: per room, its participants' keys by first join
          ev,         \* the event handled by the last step
          out,        \* what the last step emitted, in order
          alloc       \* generateUniqueNumbers called on its own: count, draws, result

vars == <<rooms, sdata, status, groups, timers, issued, spent, joinOrder, ev, out, alloc>>

\* ------------------------------------------------------------ JS built-ins
RECURSIVE TrimStart(_)
TrimStart(s) == IF s # <<>> /\ Head(s) = " " THEN TrimStart(Tail(s)) ELSE s

RECURSIVE TrimEnd(_)
TrimEnd(s) == IF s # <<>> /\ s[Len(s)] = " " THEN TrimEnd(SubSeq(s, 1, Len(s) - 1)) ELSE s

\* a trim that leaves the string as it is
TrimNothing(s) == s

\* String.prototype.trim
Trim(s) == TrimEnd(TrimStart(s))

MapKeys(m) == { m[i].k : i \in DOMAIN m }
MapHas(m, k) == k \in MapKeys(m)
MapIdx(m, k) == CHOOSE i \in DOMAIN m : m[i].k = k
MapGet(m, k) == m[MapIdx(m, k)].v
\* Map.set keeps the position of an existing key and appends a new one
MapSet(m, k, v) ==
    IF MapHas(m, k) THEN [m EXCEPT ![MapIdx(m, k)] = [k |-> k, v |-> v]]
    ELSE Append(m, [k |-> k, v |-> v])
MapDelete(m, k) == SelectSeq(m, LAMBDA e : e.k # k)

\* a splice that removes nothing: a drawn number stays available
SpliceNothing(a, i) == a

\* Array.prototype.splice(i, 1) on a 0-based index
Splice(a, i) == SubSeq(a, 1, i) \o SubSeq(a, i + 2, Len(a))

\* ---------------------------------------------------------- card allocator
\* the value Math.random() returns at the i-th iteration, as a numerator
Draw(seed, i) == seed[i % SeedLen]

\* one iteration of "for (let i = 0; i < count && available.length > 0; i++)"
\* on the pair st of numbers and available; an iteration that finds
\* available empty ends the loop, and so does every later one
LoopBody(st, i, seed) ==
    IF Len(st.available) > 0
    THEN LET randomIndex == (Draw(seed, i) * Len(st.available)) \div RandDen
         IN [numbers |-> Append(st.numbers, st.available[randomIndex + 1]),
             available |-> Splice(st.available, randomIndex)]
    ELSE st

\* the iterations i = from .. to - 1 of the loop, in order; the range is
\* split in two halves, and the pair is looked at before each half, to keep
\* the evaluation shallow
RECURSIVE GenLoop(_, _, _, _)
GenLoop(st, from, to, seed) ==
    IF to <= from \/ Len(st.available) = 0 THEN st
    ELSE IF to = from + 1 THEN LoopBody(st, from, seed)
    ELSE LET mid == (from + to) \div 2
             half == GenLoop(st, from, mid, seed)
         IN GenLoop(half, mid, to, seed)

\* an allocator whose universe starts at 0
generateFromZero(count, seed) ==
    GenLoop([numbers |-> <<>>, available |-> [i \in 1..UniverseSize |-> i - 1]],
            0, count, seed).numbers

generateUniqueNumbers(count, seed) ==
    GenLoop([numbers |-> <<>>, available |-> [i \in 1..UniverseSize |-> i]],
            0, count, seed).numbers

\* ------------------------------------------------------------- room store
Player(id, name, isMaster) ==
    [id |-> id, name |-> name, isMaster |-> isMaster,
     disconnected |-> FALSE, disconnectedAt |-> {}, oldSocketId |-> {}]

createRoom(roomId, masterSocketId, masterName, theme) ==
    [id |-> roomId, master |-> masterSocketId, theme |-> theme,
     players |-> <<[k |-> masterSocketId, v |-> Player(masterSocketId, masterName, TRUE)]>>,
     cards |-> <<>>, gameStarted |-> FALSE]

\* ---------------------------------------------------------------- emission
Emit(e, kind, id, except, card, msg) ==
    [ev |-> e, kind |-> kind, id |-> id, except |-> except, card |-> card, msg |-> msg]
\* socket.emit(e) and io.to(socketId).emit(e)
ToSock(s, e, card, msg) == Emit(e, "sock", s, {}, card, msg)
\* io.to(roomId).emit(e)
ToRoom(r, e) == Emit(e, "room", r, {}, {}, "")
\* socket.to(roomId).emit(e)
ToOthers(r, s, e) == Emit(e, "room", r, {s}, {}, "")
Error(s, msg) == ToSock(s, "error", {}, msg)

\* delivery: socket.emit / io.to(socketId).emit reach that connection;
\* io.to(roomId).emit reaches the connections that joined the group roomId,
\* socket.to(roomId).emit all of them but the sender.  g is the groups of
\* the connections when the event is emitted.
Reaches(e, s, g) ==
    IF e.kind = "sock" THEN e.id = s
    ELSE e.id \in g[s] /\ s \notin e.except

Event(op, s, r) == [op |-> op, sock |-> s, room |-> r, name |-> <<>>, theme |-> <<>>]
\* an event whose payload has a playerName, as it is sent
NamedEvent(op, s, r, playerName) ==
    [op |-> op, sock |-> s, room |-> r, name |-> playerName, theme |-> <<>>]

\* the value numbers[index] has past the end of the array
NoCard == 0
NumAt(numbers, i) == IF i \in DOMAIN numbers THEN numbers[i] ELSE NoCard

\* room.players.forEach((player, socketId) => { room.cards.set(socketId,
\* numbers[index]); io.to(socketId).emit('card_distributed', ...) }) on
\* cleared cards
AssignCards(players, numbers) ==
    [i \in DOMAIN players |-> [k |-> players[i].k, v |-> NumAt(numbers, i)]]
AssignEmits(players, numbers) ==
    [i \in DOMAIN players |->
        ToSock(players[i].k, "card_distributed", {NumAt(numbers, i)}, "")]

Init ==
    /\ rooms = << >>
    /\ sdata = [s \in Sockets |-> {}]
    /\ status = [s \in Sockets |-> "open"]
    /\ groups = [s \in Sockets |-> {}]
    /\ timers = {}
    /\ issued = 0
    /\ spent = 0
    /\ joinOrder = << >>
    /\ ev = Event("start", 1, 1)
    /\ out = <<>>
    /\ alloc = <<>>

\* Connection ids are opaque: connections are numbered in the order in which
\* they first leave a trace in the state, so a connection acts only when every
\* lower-numbered one has already joined something or closed.
Fresh(s) == status[s] = "open" /\ sdata[s] = {}
Connected(s) == status[s] = "open" /\ \A t \in DOMAIN status : t < s => ~Fresh(t)

\* Membership events of the kinds that can be sent again and again with
\* effect are counted: a join by a connection that is already in the room, a
\* removal, a matched reconnect.  A specification cuts its runs after a
\* number of them.
Spend == spent' = spent + 1
Within(limit) == spent' <= limit

\* a function with one more (or one replaced) mapping
Put(f, key, val) == [x \in (DOMAIN f) \cup {key} |-> IF x = key THEN val ELSE f[x]]
Drop(f, key) == [x \in (DOMAIN f) \ {key} |-> f[x]]

\* -------------------------------------------------------------- create_room
\* uuidv4().substring(0, 8) when it returns an id it has not returned before
NewRoomId == issued + 1

\* roomId is what uuidv4().substring(0, 8) returns to this run of the handler
CreateRoom(s, playerName, theme, roomId) ==
    /\ Connected(s)
    /\ ev' = [NamedEvent("create_room", s, roomId, playerName) EXCEPT !.theme = theme]
    /\ UNCHANGED alloc
    /\ IF Trim(playerName) = <<>>
       THEN /\ out' = <<Error(s, "Player name is required")>>
            /\ UNCHANGED <<rooms, sdata, status, groups, timers, issued, spent, joinOrder>>
       ELSE IF Trim(theme) = <<>>
       THEN /\ out' = <<Error(s, "Theme is required")>>
            /\ UNCHANGED <<rooms, sdata, status, groups, timers, issued, spent, joinOrder>>
       ELSE /\ rooms' = Put(rooms, roomId, createRoom(roomId, s, Trim(playerName), Trim(theme)))
            /\ issued' = issued + 1
            /\ joinOrder' = Put(joinOrder, roomId, <<s>>)
            /\ groups' = [groups EXCEPT ![s] = @ \cup {roomId}]
            /\ sdata' = [sdata EXCEPT ![s] = {roomId}]
            /\ out' = <<ToSock(s, "room_created", {}, ""), ToSock(s, "room_joined", {}, "")>>
            /\ UNCHANGED <<status, timers, spent>>

\* the random draws an allocation consumes: none when no allocation runs
SeedsIf(b) == IF b THEN Seeds ELSE {[i \in 0..(SeedLen - 1) |-> 0]}

\* ---------------------------------------------------------------- join_room
JoinRoom(s, playerName, roomId) ==
    /\ Connected(s)
    /\ ev' = NamedEvent("join_room", s, roomId, playerName)
    /\ UNCHANGED alloc
    /\ IF Trim(playerName) = <<>>
       THEN /\ out' = <<Error(s, "Player name is required")>>
            /\ UNCHANGED <<rooms, sdata, status, groups, timers, issued, spent, joinOrder>>
       ELSE IF roomId \notin DOMAIN rooms
       THEN /\ out' = <<Error(s, "Room not found")>>
            /\ UNCHANGED <<rooms, sdata, status, groups, timers, issued, spent, joinOrder>>
       ELSE \E seed \in SeedsIf(rooms[roomId].gameStarted) :
            LET room == rooms[roomId]
                players1 == MapSet(room.players, s, Player(s, Trim(playerName), FALSE))
                numbers == generateUniqueNumbers(Len(players1), seed)
                notify == <<ToSock(s, "room_joined", {}, ""),
                            ToOthers(roomId, s, "update_players")>>
            IN /\ rooms' = [rooms EXCEPT ![roomId] =
                      IF room.gameStarted
                      THEN [room EXCEPT !.players = players1,
                                        !.cards = AssignCards(players1, numbers)]
                      ELSE [room EXCEPT !.players = players1]]
               /\ joinOrder' = [joinOrder EXCEPT ![roomId] =
                      IF s \in MapKeys(room.players) THEN @ ELSE Append(@, s)]
               /\ groups' = [groups EXCEPT ![s] = @ \cup {roomId}]
               /\ sdata' = [sdata EXCEPT ![s] = {roomId}]
               /\ out' = IF room.gameStarted
                         THEN notify \o AssignEmits(players1, numbers)
                         ELSE notify
               /\ (IF s \in MapKeys(room.players) THEN Spend ELSE UNCHANGED spent)
               /\ UNCHANGED <<status, timers, issued>>

\* a privilege check that lets every connection through
IsMasterAnyone(room, s) == TRUE

\* the privilege check "room.master !== socket.id" of distribute_cards,
\* reset_game and remove_player
IsMaster(room, s) == room.master = s

\* a handler that announces the start before it deals the cards
StartedFirst(emits, roomId) == <<ToRoom(roomId, "game_started")>> \o emits

\* the individual card_distributed of the forEach, then
\* io.to(roomId).emit('game_started', ...)
ThenStarted(emits, roomId) == emits \o <<ToRoom(roomId, "game_started")>>

\* ---------------------------------------------------------- distribute_cards
DistributeCards(s, roomId) ==
    /\ Connected(s)
    /\ ev' = Event("distribute_cards", s, roomId)
    /\ UNCHANGED alloc
    /\ IF roomId \notin DOMAIN rooms
       THEN /\ out' = <<Error(s, "Room not found")>>
            /\ UNCHANGED <<rooms, sdata, status, groups, timers, issued, spent, joinOrder>>
       ELSE IF ~IsMaster(rooms[roomId], s)
       THEN /\ out' = <<Error(s, "Only the master can distribute cards")>>
            /\ UNCHANGED <<rooms, sdata, status, groups, timers, issued, spent, joinOrder>>
       ELSE IF Len(rooms[roomId].players) < 1
       THEN /\ out' = <<Error(s, "Need at least one player to distribute cards")>>
            /\ UNCHANGED <<rooms, sdata, status, groups, timers, issued, spent, joinOrder>>
       ELSE \E seed \in Seeds :
            LET room == rooms[roomId]
                playerCount == Len(room.players)
                numbers == generateUniqueNumbers(playerCount, seed)
            IN IF Len(numbers) # playerCount
               THEN /\ rooms' = [rooms EXCEPT ![roomId] = [room EXCEPT !.cards = <<>>]]
                    /\ out' = <<Error(s, "Failed to generate unique numbers")>>
                    /\ UNCHANGED <<sdata, status, groups, timers, issued, spent, joinOrder>>
               ELSE /\ rooms' = [rooms EXCEPT ![roomId] =
                           [room EXCEPT !.cards = AssignCards(room.players, numbers),
                                        !.gameStarted = TRUE]]
                    /\ out' = ThenStarted(AssignEmits(room.players, numbers), roomId)
                    /\ UNCHANGED <<sdata, status, groups, timers, issued, spent, joinOrder>>

\* ---------------------------------------------------------------- reset_game
ResetGame(s, roomId) ==
    /\ Connected(s)
    /\ ev' = Event("reset_game", s, roomId)
    /\ UNCHANGED alloc
    /\ IF roomId \notin DOMAIN rooms
       THEN /\ out' = <<Error(s, "Room not found")>>
            /\ UNCHANGED <<rooms, sdata, status, groups, timers, issued, spent, joinOrder>>
       ELSE IF ~IsMaster(rooms[roomId], s)
       THEN /\ out' = <<Error(s, "Only the master can reset the game")>>
            /\ UNCHANGED <<rooms, sdata, status, groups, timers, issued, spent, joinOrder>>
       ELSE \E seed \in Seeds :
            LET room == rooms[roomId]
                playerCount == Len(room.players)
                numbers == generateUniqueNumbers(playerCount, seed)
            IN IF Len(numbers) # playerCount
               THEN /\ rooms' = [rooms EXCEPT ![roomId] =
                           [room EXCEPT !.cards = <<>>, !.gameStarted = FALSE]]
                    /\ out' = <<ToRoom(roomId, "game_reset"),
                                Error(s, "Failed to generate unique numbers for reset")>>
                    /\ UNCHANGED <<sdata, status, groups, timers, issued, spent, joinOrder>>
               ELSE /\ rooms' = [rooms EXCEPT ![roomId] =
                           [room EXCEPT !.cards = AssignCards(room.players, numbers),
                                        !.gameStarted = TRUE]]
                    /\ out' = <<ToRoom(roomId, "game_reset")>>
                                \o ThenStarted(AssignEmits(room.players, numbers), roomId)
                    /\ UNCHANGED <<sdata, status, groups, timers, issued, spent, joinOrder>>

\* a lookup that takes the first participant whatever its name
FindAnyone(players, playerName) ==
    IF players = <<>> THEN {} ELSE {players[1].v}

\* Array.from(room.players.values()).find(p => p.name === playerName): the
\* first participant, in iteration order, whose name is playerName
FindByName(players, playerName) ==
    LET hits == { i \in DOMAIN players : players[i].v.name = playerName }
    IN IF hits = {} THEN {}
       ELSE {players[CHOOSE i \in hits : \A j \in hits : i <= j].v}

\* "if (room.gameStarted && room.players.size > 0) { room.cards.clear(); ...
\* if (numbers.length === playerCount) { assign } }" of remove_player and of
\* the eviction timer
Redistribute(room, seed) ==
    IF room.gameStarted /\ Len(room.players) > 0
    THEN LET numbers == generateUniqueNumbers(Len(room.players), seed)
         IN IF Len(numbers) = Len(room.players)
            THEN [room EXCEPT !.cards = AssignCards(room.players, numbers)]
            ELSE [room EXCEPT !.cards = <<>>]
    ELSE room
RedistributeEmits(room, seed) ==
    IF room.gameStarted /\ Len(room.players) > 0
    THEN LET numbers == generateUniqueNumbers(Len(room.players), seed)
         IN IF Len(numbers) = Len(room.players)
            THEN AssignEmits(room.players, numbers)
            ELSE <<>>
    ELSE <<>>

\* ------------------------------------------------------------- remove_player
RemovePlayer(s, roomId, playerName) ==
    /\ Connected(s)
    /\ ev' = NamedEvent("remove_player", s, roomId, playerName)
    /\ UNCHANGED alloc
    /\ IF playerName = <<>> \/ roomId \notin DOMAIN rooms
       THEN /\ out' = <<>>
            /\ UNCHANGED <<rooms, sdata, status, groups, timers, issued, spent, joinOrder>>
       ELSE IF ~IsMaster(rooms[roomId], s)
       THEN /\ out' = <<Error(s, "Only the master can remove players")>>
            /\ UNCHANGED <<rooms, sdata, status, groups, timers, issued, spent, joinOrder>>
       ELSE IF FindByName(rooms[roomId].players, playerName) = {}
       THEN /\ out' = <<Error(s, "Player not found")>>
            /\ UNCHANGED <<rooms, sdata, status, groups, timers, issued, spent, joinOrder>>
       ELSE LET room == rooms[roomId]
                playerToRemove == CHOOSE p \in FindByName(room.players, playerName) : TRUE
                room1 == [room EXCEPT !.players = MapDelete(@, playerToRemove.id),
                                      !.cards = MapDelete(@, playerToRemove.id)]
            IN IF playerToRemove.isMaster
               THEN /\ out' = <<Error(s, "Master cannot remove themselves")>>
                    /\ UNCHANGED <<rooms, sdata, status, groups, timers, issued, spent, joinOrder>>
               ELSE \E seed \in SeedsIf(room1.gameStarted /\ Len(room1.players) > 0) :
                    /\ rooms' = [rooms EXCEPT ![roomId] = Redistribute(room1, seed)]
                    /\ joinOrder' = [joinOrder EXCEPT ![roomId] =
                           SelectSeq(@, LAMBDA k : k # playerToRemove.id)]
                    /\ out' = <<ToRoom(roomId, "update_players"),
                                ToSock(playerToRemove.id, "player_removed", {}, "")>>
                                \o RedistributeEmits(room1, seed)
                    /\ Spend /\ UNCHANGED <<sdata, status, groups, timers, issued>>

\* a refresh that also takes the master flag away
RefreshDemoted(player) ==
    [player EXCEPT !.disconnected = FALSE, !.disconnectedAt = {}, !.isMaster = FALSE]

\* player.lastSeen = Date.now(); player.disconnected = false;
\* player.disconnectedAt = null
Refresh(player) == [player EXCEPT !.disconnected = FALSE, !.disconnectedAt = {}]

\* ---------------------------------------------------------------- keep_alive
KeepAlive(s, roomId) ==
    /\ Connected(s)
    /\ ev' = Event("keep_alive", s, roomId)
    /\ UNCHANGED alloc
    /\ out' = <<>>
    /\ IF roomId \in DOMAIN rooms /\ MapHas(rooms[roomId].players, s)
       THEN LET player == MapGet(rooms[roomId].players, s)
            IN rooms' = [rooms EXCEPT ![roomId].players = MapSet(@, s, Refresh(player))]
       ELSE UNCHANGED rooms
    /\ UNCHANGED <<sdata, status, groups, timers, issued, spent, joinOrder>>

\* ---------------------------------------------------------- reconnect_player
\* Array.from(room.cards.entries()).find(([socketId, card]) => { const player
\* = room.players.get(socketId); return player && player.name === playerName })
FindCardByName(cards, players, playerName) ==
    LET hits == { i \in DOMAIN cards :
                    /\ MapHas(players, cards[i].k)
                    /\ MapGet(players, cards[i].k).name = playerName }
    IN IF hits = {} THEN {}
       ELSE {cards[CHOOSE i \in hits : \A j \in hits : i <= j]}

\* a card lookup that skips the recorded previous socket id
PlayerCardByNameOnly(cards, players, existingPlayer, playerName) ==
    FindCardByName(cards, players, playerName)

\* the card entry the reconnect handler resolves: by the recorded previous
\* socket id first, by name otherwise
PlayerCard(cards, players, existingPlayer, playerName) ==
    IF /\ existingPlayer.oldSocketId # {}
       /\ \E o \in existingPlayer.oldSocketId : MapHas(cards, o)
    THEN { [k |-> o, v |-> MapGet(cards, o)] : o \in existingPlayer.oldSocketId }
    ELSE FindCardByName(cards, players, playerName)

\* history: the key of the re-keyed participant takes the old key's rank
Rekey(order, old, new) ==
    LET dropped == IF new = old THEN order ELSE SelectSeq(order, LAMBDA k : k # new)
    IN [i \in DOMAIN dropped |-> IF dropped[i] = old THEN new ELSE dropped[i]]

ReconnectPlayer(s, roomId, playerName) ==
    /\ Connected(s)
    /\ ev' = NamedEvent("reconnect_player", s, roomId, playerName)
    /\ UNCHANGED alloc
    /\ IF \/ playerName = <<>>
          \/ roomId \notin DOMAIN rooms
          \/ FindByName(rooms[roomId].players, playerName) = {}
       THEN /\ out' = <<>>
            /\ UNCHANGED <<rooms, sdata, status, groups, timers, issued, spent, joinOrder>>
       ELSE LET room == rooms[roomId]
                existingPlayer == CHOOSE p \in FindByName(room.players, playerName) : TRUE
                players1 == MapSet(MapDelete(room.players, existingPlayer.id), s,
                               [existingPlayer EXCEPT !.id = s, !.disconnected = FALSE,
                                                      !.disconnectedAt = {}])
                playerCard == IF room.gameStarted
                              THEN PlayerCard(room.cards, players1, existingPlayer, playerName)
                              ELSE {}
                cards1 == IF playerCard = {} THEN room.cards
                          ELSE LET pc == CHOOSE c \in playerCard : TRUE
                               IN MapSet(MapDelete(room.cards, pc.k), s, pc.v)
            IN /\ rooms' = [rooms EXCEPT ![roomId] =
                      [room EXCEPT !.players = players1, !.cards = cards1]]
               /\ joinOrder' = [joinOrder EXCEPT ![roomId] = Rekey(@, existingPlayer.id, s)]
               /\ sdata' = [sdata EXCEPT ![s] = {roomId}]
               /\ groups' = [groups EXCEPT ![s] = @ \cup {roomId}]
               /\ out' = <<ToSock(s, "room_joined", {}, ""),
                           ToOthers(roomId, s, "update_players")>>
                         \o IF playerCard = {} THEN <<>>
                            ELSE <<ToSock(s, "card_distributed",
                                          {(CHOOSE c \in playerCard : TRUE).v}, "")>>
               /\ Spend /\ UNCHANGED <<status, timers, issued>>

\* a disconnect that also takes the master flag away
MarkedAndDemoted(player, s) ==
    [player EXCEPT !.disconnected = TRUE, !.disconnectedAt = {s}, !.oldSocketId = {s},
                   !.isMaster = FALSE]

\* player.disconnected = true; player.disconnectedAt = Date.now();
\* player.oldSocketId = socket.id
MarkDisconnected(player, s) ==
    [player EXCEPT !.disconnected = TRUE, !.disconnectedAt = {s}, !.oldSocketId = {s}]

\* ---------------------------------------------------------------- disconnect
\* (a connection that closes before it joined anything leaves no trace: it
\* is not numbered)
Disconnect(s) ==
    /\ Connected(s)
    /\ ~Fresh(s)
    /\ ev' = Event("disconnect", s, 1)
    /\ UNCHANGED alloc
    /\ out' = <<>>
    /\ status' = [status EXCEPT ![s] = "closed"]
    /\ groups' = [groups EXCEPT ![s] = {}]
    /\ IF /\ sdata[s] # {}
          /\ \E r \in sdata[s] : r \in DOMAIN rooms /\ MapHas(rooms[r].players, s)
       THEN LET roomId == CHOOSE r \in sdata[s] : TRUE
                player == MapGet(rooms[roomId].players, s)
            IN /\ rooms' = [rooms EXCEPT ![roomId].players =
                      MapSet(@, s, MarkDisconnected(player, s))]
               /\ timers' = timers \cup {[sock |-> s, room |-> roomId]}
       ELSE UNCHANGED <<rooms, timers>>
    /\ UNCHANGED <<sdata, issued, spent, joinOrder>>

\* ------------------------------------------------- the setTimeout callback
\* setTimeout(f, 120000) runs f no earlier than 120000 ms after the call, and
\* the call follows the stamping of disconnectedAt within the same handler:
\* the delays the callback can measure, at and just past the boundary
Delays == { GraceMs, GraceMs + 1 }

\* Date.now() - currentPlayer.disconnectedAt in the callback of connection s
\* that runs delay ms after T(s).  The stamp of the entry keyed s is T(s)
\* (StampIsOwn); a null stamp counts as instant 0.
Elapsed(player, s, delay) ==
    IF player.disconnectedAt = {} THEN GraceMs + delay ELSE delay

EvictGuard(player, s, delay) == player.disconnected /\ Elapsed(player, s, delay) > GraceMs

\* "if (currentRoom.master === socket.id) { newMaster = first key; ... }"
ElectNewMaster(room, s) ==
    IF room.master = s
    THEN LET newMaster == room.players[1].k
         IN [room EXCEPT !.master = newMaster,
                         !.players = MapSet(@, newMaster,
                             [MapGet(@, newMaster) EXCEPT !.isMaster = TRUE])]
    ELSE room

\* a callback that trusts what it captured when it was scheduled and only
\* looks whether the room is still there
TimerLiveNoRecheck(t, delay) == t.room \in DOMAIN rooms

\* the live re-check of the callback: the room is still in the store, the
\* entry keyed by the old connection id is still there, still disconnected,
\* and the grace period is over
TimerLive(t, delay) ==
    /\ t.room \in DOMAIN rooms
    /\ MapHas(rooms[t.room].players, t.sock)
    /\ EvictGuard(MapGet(rooms[t.room].players, t.sock), t.sock, delay)

EvictionTimer(t, delay) ==
    /\ t \in timers
    /\ timers' = timers \ {t}
    /\ ev' = Event("eviction_timer", t.sock, t.room)
    /\ UNCHANGED alloc
    /\ IF TimerLive(t, delay)
       THEN LET currentRoom == rooms[t.room]
                room1 == [currentRoom EXCEPT !.players = MapDelete(@, t.sock),
                                             !.cards = MapDelete(@, t.sock)]
            IN IF Len(room1.players) = 0
               THEN /\ rooms' = Drop(rooms, t.room)
                    /\ joinOrder' = Drop(joinOrder, t.room)
                    /\ out' = <<>>
               ELSE \E seed \in SeedsIf(room1.gameStarted) :
                    LET room2 == ElectNewMaster(room1, t.sock)
                    IN /\ rooms' = [rooms EXCEPT ![t.room] = Redistribute(room2, seed)]
                       /\ joinOrder' = [joinOrder EXCEPT ![t.room] =
                              SelectSeq(@, LAMBDA k : k # t.sock)]
                       /\ out' = <<ToRoom(t.room, "update_players")>>
                                   \o RedistributeEmits(room2, seed)
       ELSE /\ out' = <<>>
            /\ UNCHANGED <<rooms, joinOrder>>
    /\ UNCHANGED <<sdata, status, groups, issued, spent>>

\* Every id the generator returns is new, and a run has at most MaxRepeat
\* repeatable membership events.
Next ==
    \/ \E s \in Sockets, n \in RawNames, t \in RawThemes :
          issued < MaxRooms /\ CreateRoom(s, n, t, NewRoomId)
    \/ \E s \in Sockets, n \in RawNames, r \in RoomIds :
          JoinRoom(s, n, r) /\ Within(MaxRepeat)
    \/ \E s \in Sockets, r \in RoomIds : DistributeCards(s, r)
    \/ \E s \in Sockets, r \in RoomIds : ResetGame(s, r)
    \/ \E s \in Sockets, n \in LookupNames, r \in RoomIds :
          RemovePlayer(s, r, n) /\ Within(MaxRepeat)
    \/ \E s \in Sockets, r \in RoomIds : KeepAlive(s, r)
    \/ \E s \in Sockets, n \in LookupNames, r \in RoomIds :
          ReconnectPlayer(s, r, n) /\ Within(MaxRepeat)
    \/ \E s \in Sockets : Disconnect(s)
    \/ \E t \in timers, delay \in Delays : EvictionTimer(t, delay)

Spec == Init /\ [][Next]_vars

\* ------------------------------------------------- two connections, longer
\* The same handlers with one connection fewer, one more repeatable
\* membership event, and an id generator that can return an id again:
\* uuidv4().substring(0, 8) keeps 32 random bits and nothing compares its
\* result with the ids in the store.
PairSockets == 1..(MaxSock - 1)

NextPair ==
    \/ \E s \in PairSockets, n \in RawNames, t \in RawThemes, r \in RoomIds :
          issued < MaxRooms + 1 /\ CreateRoom(s, n, t, r)
    \/ \E s \in PairSockets, n \in RawNames, r \in RoomIds :
          JoinRoom(s, n, r) /\ Within(MaxRepeat + 1)
    \/ \E s \in PairSockets, r \in RoomIds : DistributeCards(s, r)
    \/ \E s \in PairSockets, r \in RoomIds : ResetGame(s, r)
    \/ \E s \in PairSockets, n \in LookupNames, r \in RoomIds :
          RemovePlayer(s, r, n) /\ Within(MaxRepeat + 1)
    \/ \E s \in PairSockets, r \in RoomIds : KeepAlive(s, r)
    \/ \E s \in PairSockets, n \in LookupNames, r \in RoomIds :
          ReconnectPlayer(s, r, n) /\ Within(MaxRepeat + 1)
    \/ \E s \in PairSockets : Disconnect(s)
    \/ \E t \in timers, delay \in Delays : EvictionTimer(t, delay)

SpecPair == Init /\ [][NextPair]_vars

\* ------------------------------------------------------ one more room id
\* The handlers that put a connection into a room and take it out, with one
\* connection fewer and one more room: every id the generator returns is new.
MoreRooms == 1..(MaxRooms + 1)

NextRooms ==
    \/ \E s \in PairSockets, n \in RawNames, t \in RawThemes :
          issued < MaxRooms + 1 /\ CreateRoom(s, n, t, NewRoomId)
    \/ \E s \in PairSockets, n \in RawNames, r \in MoreRooms :
          JoinRoom(s, n, r) /\ Within(MaxRepeat)
    \/ \E s \in PairSockets, n \in LookupNames, r \in MoreRooms :
          ReconnectPlayer(s, r, n) /\ Within(MaxRepeat)
    \/ \E s \in PairSockets : Disconnect(s)
    \/ \E t \in timers, delay \in Delays : EvictionTimer(t, delay)

SpecRooms == Init /\ [][NextRooms]_vars

\* ------------------------------------------------------- a room that is full
\* The handlers from the state the server is in when connection 1 has
\* created a room as "a" and connections 2..UniverseSize have joined it as
\* "b", one after the other: as many participants as the allocator has
\* numbers.  One more connection is there to join.
Crowd == 1..(UniverseSize + 1)
Member(s) == s <= UniverseSize
\* the connections that send events from here on: the master, the last
\* member and the newcomer
Actors == { 1, UniverseSize, UniverseSize + 1 }

InitCrowd ==
    /\ rooms = Put(<< >>, 1,
          [createRoom(1, 1, <<"a">>, <<"t">>) EXCEPT !.players =
              [i \in 1..UniverseSize |->
                  [k |-> i, v |-> Player(i, IF i = 1 THEN <<"a">> ELSE <<"b">>, i = 1)]]])
    /\ sdata = [s \in Crowd |-> IF Member(s) THEN {1} ELSE {}]
    /\ status = [s \in Crowd |-> "open"]
    /\ groups = [s \in Crowd |-> IF Member(s) THEN {1} ELSE {}]
    /\ timers = {}
    /\ issued = 1
    /\ spent = 0
    /\ joinOrder = Put(<< >>, 1, [i \in 1..UniverseSize |-> i])
    /\ ev = Event("join_room", UniverseSize, 1)
    /\ out = <<ToSock(UniverseSize, "room_joined", {}, ""),
               ToOthers(1, UniverseSize, "update_players")>>
    /\ alloc = <<>>

NextCrowd ==
    \/ \E s \in Actors : JoinRoom(s, <<"b">>, 1) /\ Within(MaxRepeat)
    \/ \E s \in Actors : DistributeCards(s, 1)
    \/ \E s \in Actors : ResetGame(s, 1)
    \/ \E s \in Actors : RemovePlayer(s, 1, <<"b">>) /\ Within(MaxRepeat)
    \/ \E s \in Actors : Disconnect(s)
    \/ \E t \in timers, delay \in Delays : EvictionTimer(t, delay)

SpecCrowd == InitCrowd /\ [][NextCrowd]_vars

\* ------------------------------------------------- the allocator on its own
\* generateUniqueNumbers(count) for every count up to past the universe and
\* every sequence of draws: a call is pending, then it has returned.
Counts == 0..(UniverseSize + 2)

InitAlloc ==
    /\ rooms = << >>
    /\ sdata = [s \in Sockets |-> {}]
    /\ status = [s \in Sockets |-> "open"]
    /\ groups = [s \in Sockets |-> {}]
    /\ timers = {}
    /\ issued = 0
    /\ spent = 0
    /\ joinOrder = << >>
    /\ ev = Event("start", 1, 1)
    /\ out = <<>>
    /\ \E count \in Counts, seed \in Seeds :
          alloc = [count |-> count, seed |-> seed, returned |-> FALSE, numbers |-> <<>>]

Allocate ==
    /\ ~alloc.returned
    /\ alloc' = [alloc EXCEPT !.returned = TRUE,
                              !.numbers = generateUniqueNumbers(alloc.count, alloc.seed)]
    /\ UNCHANGED <<rooms, sdata, status, groups, timers, issued, spent, joinOrder, ev, out>>

NextAlloc == Allocate

SpecAlloc == InitAlloc /\ [][NextAlloc]_vars

\* ======================================================================
\* Properties
\* ======================================================================
Live == DOMAIN rooms
Keys(m) == MapKeys(m)
Values(m) == { m[i].v : i \in DOMAIN m }
Distinct(m) == \A i, j \in DOMAIN m : m[i].v = m[j].v => i = j
Emitted(e) == { i \in DOMAIN out : out[i].ev = e }
\* the last step was a handler run that went through to its end
Succeeded(op) == ev.op = op /\ ev.room \in Live /\ Emitted("error") = {} /\ out # <<>>

\* The entry keyed by a closed connection carries that connection's own
\* disconnect instant, and only such an entry is marked disconnected.
StampIsOwn ==
    \A r \in Live : \A i \in DOMAIN rooms[r].players :
        LET e == rooms[r].players[i]
        IN /\ e.v.id = e.k
           /\ e.v.disconnected => (e.v.disconnectedAt = {e.k} /\ status[e.k] = "closed")
           /\ e.v.disconnectedAt # {} => e.v.disconnected

\* C1: every room with at least one participant has exactly one participant
\* with isMaster = true, and room.master is that participant's id.
C1_ExactlyOneMaster ==
    \A r \in Live :
        LET ps == rooms[r].players
            ms == { i \in DOMAIN ps : ps[i].v.isMaster }
        IN Len(ps) >= 1 =>
             /\ Cardinality(ms) = 1
             /\ \A i \in ms : ps[i].v.id = rooms[r].master

\* no participant of the room is marked disconnected: no eviction is pending
NoEvictionPending(r) ==
    \A i \in DOMAIN rooms[r].players : ~rooms[r].players[i].v.disconnected

\* C2: in a started room with no eviction pending, cards holds exactly one
\* entry per participant and the card values are pairwise distinct.
C2_CardsCoverParticipants ==
    \A r \in Live :
        (rooms[r].gameStarted /\ NoEvictionPending(r)) =>
            /\ Keys(rooms[r].cards) = Keys(rooms[r].players)
            /\ Len(rooms[r].cards) = Len(rooms[r].players)
            /\ Distinct(rooms[r].cards)

\* C3: every key of cards is a key of participants.
C3_CardKeysAreParticipants ==
    \A r \in Live : Keys(rooms[r].cards) \subseteq Keys(rooms[r].players)

\* C4: after a successful distribute_cards or reset_game on a room with N
\* participants, cards has exactly N entries, one per participant, with N
\* pairwise distinct values in 1..100, and the room is started.
C4_FreshAssignment ==
    (Succeeded("distribute_cards") \/ Succeeded("reset_game")) =>
        LET room == rooms[ev.room]
        IN /\ Len(room.cards) = Len(room.players)
           /\ Keys(room.cards) = Keys(room.players)
           /\ Cardinality(Keys(room.cards)) = Len(room.players)
           /\ Distinct(room.cards)
           /\ Values(room.cards) \subseteq 1..UniverseSize
           /\ room.gameStarted

C4_Witness ==
    /\ Succeeded("reset_game")
    /\ Len(rooms[ev.room].players) = MaxSock
    /\ Len(rooms[ev.room].cards) = MaxSock

\* C5: distribute_cards or reset_game from a connection that is not the
\* room's master sends that connection one error and nothing else, and
\* leaves the store as it was.
C5_NonMasterRejected ==
    [][ (/\ ev'.op \in {"distribute_cards", "reset_game"}
         /\ ev'.room \in Live
         /\ rooms[ev'.room].master # ev'.sock)
        => (/\ rooms' = rooms
            /\ Len(out') = 1
            /\ out'[1].ev = "error"
            /\ out'[1].kind = "sock"
            /\ out'[1].id = ev'.sock) ]_vars

C5_Witness ==
    /\ ev.op = "reset_game"
    /\ ev.room \in Live
    /\ MapHas(rooms[ev.room].players, ev.sock)
    /\ rooms[ev.room].gameStarted
    /\ rooms[ev.room].master # ev.sock
    /\ out = <<Error(ev.sock, "Only the master can reset the game")>>

\* the last step was a reconnect_player that matched a participant
Reconnected == ev.op = "reconnect_player" /\ out # <<>>

\* C6: when the participant matched by reconnect_player held isMaster,
\* room.master is the new connection id afterwards.
C6_MasterFollowsReconnect ==
    (Reconnected /\ MapGet(rooms[ev.room].players, ev.sock).isMaster)
        => rooms[ev.room].master = ev.sock

\* what C7 asks of a matched reconnect_player by connection s for the entry
\* that was keyed k: it is now keyed s, Active, and its card moved with it
Restored(r, k, s) ==
    /\ MapHas(rooms'[r].players, s)
    /\ MapGet(rooms'[r].players, s).name = MapGet(rooms[r].players, k).name
    /\ ~MapGet(rooms'[r].players, s).disconnected
    /\ ~MapHas(rooms'[r].players, k)
    /\ MapHas(rooms[r].cards, k) =>
          /\ MapHas(rooms'[r].cards, s)
          /\ MapGet(rooms'[r].cards, s) = MapGet(rooms[r].cards, k)
          /\ ~MapHas(rooms'[r].cards, k)

\* a step in which reconnect_player matched a participant of the room
ReconnectStep == ev'.op = "reconnect_player" /\ out' # <<>>
ReconnectName == MapGet(rooms'[ev'.room].players, ev'.sock).name

\* C7 as claimed: reconnect_player from a new connection with the name of a
\* disconnected participant restores that participant under the new
\* connection id, its card re-keyed at the same value.
C7_AnyNamesakeRestored ==
    [][ (ReconnectStep /\ ~MapHas(rooms[ev'.room].players, ev'.sock)) =>
          \A i \in DOMAIN rooms[ev'.room].players :
              LET e == rooms[ev'.room].players[i]
              IN (e.v.disconnected /\ e.v.name = ReconnectName)
                    => Restored(ev'.room, e.k, ev'.sock) ]_vars

\* C7 amended: reconnect_player with the name of a disconnected participant
\* that is the first of the room with that name restores that participant
\* under the new connection id, its card re-keyed at the same value.
C7_FirstNamesakeRestored ==
    [][ ReconnectStep =>
          \A p \in FindByName(rooms[ev'.room].players, ReconnectName) :
              p.disconnected => Restored(ev'.room, p.id, ev'.sock) ]_vars

C7_Witness ==
    /\ Reconnected
    /\ Emitted("card_distributed") # {}
    /\ \E o \in MapGet(rooms[ev.room].players, ev.sock).oldSocketId :
          /\ o # ev.sock
          /\ status[o] = "closed"
          /\ ~MapHas(rooms[ev.room].cards, o)
          /\ MapHas(rooms[ev.room].cards, ev.sock)

\* C8: once the eviction timer of a connection has fired, 120 s or more
\* after the disconnect, no participant is left Disconnected under that
\* connection id.
C8_EvictedWhenTimerFires ==
    (ev.op = "eviction_timer" /\ ev.room \in Live /\ MapHas(rooms[ev.room].players, ev.sock))
        => ~MapGet(rooms[ev.room].players, ev.sock).disconnected

\* C9: when the timer evicts the master of a room that stays non-empty, the
\* new master is the earliest-joined remaining participant, and its isMaster
\* flag and room.master both say so.
C9_EarliestJoinerSucceeds ==
    [][ (/\ ev'.op = "eviction_timer"
         /\ ev'.room \in Live
         /\ ev'.room \in DOMAIN rooms'
         /\ rooms[ev'.room].master = ev'.sock
         /\ MapHas(rooms[ev'.room].players, ev'.sock)
         /\ ~MapHas(rooms'[ev'.room].players, ev'.sock))
        => (/\ rooms'[ev'.room].master = Head(joinOrder'[ev'.room])
            /\ MapGet(rooms'[ev'.room].players, rooms'[ev'.room].master).isMaster) ]_vars

\* the participants of room r that were re-keyed away from connection s
ReconnectedFrom(r, s) ==
    { i \in DOMAIN rooms[r].players :
        /\ rooms[r].players[i].v.oldSocketId = {s}
        /\ rooms[r].players[i].k # s
        /\ ~rooms[r].players[i].v.disconnected }

Names(r) == { rooms[r].players[i].v.name : i \in DOMAIN rooms[r].players }

\* C11: reconnect_player with a name that no participant of the room has
\* changes nothing in the room (participants, cards, started, master), adds
\* no participant and emits nothing.
C11_UnknownNameNoOp ==
    [][ (/\ ev'.op = "reconnect_player"
         /\ ev'.room \in Live
         /\ ev'.name \notin Names(ev'.room))
        => (/\ rooms' = rooms
            /\ out' = <<>>
            /\ sdata' = sdata) ]_vars

C11_Witness ==
    /\ ev.op = "reconnect_player"
    /\ ev.name = <<"b">>
    /\ ev.room \in Live
    /\ rooms[ev.room].gameStarted
    /\ Len(rooms[ev.room].players) >= 2
    /\ ev.name \notin Names(ev.room)
    /\ ~MapHas(rooms[ev.room].players, ev.sock)
\* C12: no room of the store has zero participants: a room goes the moment
\* its last participant does.
C12_NoEmptyRoom == \A r \in Live : Len(rooms[r].players) >= 1
\* C13: a create_room whose generated id is the id of a room of the store
\* does not replace or alter that room.
C13_LiveIdNotReplaced ==
    [][ (ev'.op = "create_room" /\ ev'.room \in Live)
        => rooms'[ev'.room] = rooms[ev'.room] ]_vars

\* the participant remove_player resolves its target to
Target(r, playerName) == FindByName(rooms[r].players, playerName)

\* C16: remove_player that names the participant keyed by room.master, or is
\* sent by a connection that is not room.master, or names nobody, sends the
\* sender an error and changes nothing.
C16_MasterNotRemovable ==
    [][ (/\ ev'.op = "remove_player"
         /\ ev'.room \in Live
         /\ ev'.name # <<>>
         /\ \/ rooms[ev'.room].master # ev'.sock
            \/ Target(ev'.room, ev'.name) = {}
            \/ \E p \in Target(ev'.room, ev'.name) : p.id = rooms[ev'.room].master)
        => (/\ rooms' = rooms
            /\ Len(out') = 1
            /\ out'[1].ev = "error"
            /\ out'[1].id = ev'.sock) ]_vars
\* the operations that assign cards
Assigning == { "distribute_cards", "reset_game", "join_room", "remove_player", "eviction_timer" }

\* C14: an operation that assigns cards and leaves the room with more
\* participants than the allocator has numbers assigns nothing, sends no
\* card_distributed and does not leave the room marked started.
C14_ShortfallAborts ==
    (/\ ev.op \in Assigning
     /\ ev.room \in Live
     /\ Len(rooms[ev.room].players) > UniverseSize)
    => (/\ Emitted("card_distributed") = {}
        /\ ~rooms[ev.room].gameStarted
        /\ rooms[ev.room].cards = <<>>)

\* the last step changed who is in the room
MembershipChanged ==
    \/ ev.op = "join_room" /\ Emitted("room_joined") # {}
    \/ ev.op = "remove_player" /\ Emitted("player_removed") # {}
    \/ ev.op = "eviction_timer" /\ Emitted("update_players") # {}

\* C18: after a membership change in a started room, cards has exactly one
\* entry per participant, with pairwise distinct integer values, and every
\* participant was sent card_distributed with its own value.
C18_Regenerated ==
    (MembershipChanged /\ ev.room \in Live /\ rooms[ev.room].gameStarted) =>
        LET room == rooms[ev.room]
        IN /\ Keys(room.cards) = Keys(room.players)
           /\ Len(room.cards) = Len(room.players)
           /\ Distinct(room.cards)
           /\ Values(room.cards) \subseteq 1..UniverseSize
           /\ \A i \in DOMAIN room.cards : \E j \in DOMAIN out :
                 out[j] = ToSock(room.cards[i].k, "card_distributed", {room.cards[i].v}, "")
\* C15: generateUniqueNumbers(count) returns pairwise distinct integers of
\* 1..100: exactly count of them when count <= 100, and exactly 100, fewer
\* than count, when count > 100.
C15_AllocatorContract ==
    (alloc # <<>> /\ alloc.returned) =>
        /\ \A i, j \in DOMAIN alloc.numbers : alloc.numbers[i] = alloc.numbers[j] => i = j
        /\ \A i \in DOMAIN alloc.numbers : alloc.numbers[i] \in 1..UniverseSize
        /\ alloc.count <= UniverseSize => Len(alloc.numbers) = alloc.count
        /\ alloc.count > UniverseSize => Len(alloc.numbers) = UniverseSize
        /\ Len(alloc.numbers) < alloc.count <=> alloc.count > UniverseSize

C15_Witness ==
    /\ alloc # <<>>
    /\ alloc.returned
    /\ alloc.count = UniverseSize + 1
    /\ Len(alloc.numbers) = UniverseSize
    /\ alloc.numbers[1] # 1
\* the room in which a disconnect of connection s finds a participant
RoomOf(s) == { r \in sdata[s] : r \in Live /\ MapHas(rooms[r].players, s) }

\* C17: the disconnect of a connection that is a participant only marks its
\* entry (disconnected, disconnectedAt, oldSocketId): the entry and its card
\* stay, isMaster, room.master, started and every other participant are
\* unchanged, and nothing is emitted.
C17_DisconnectOnlyMarks ==
    [][ (ev'.op = "disconnect" /\ RoomOf(ev'.sock) # {}) =>
          \A r \in RoomOf(ev'.sock) :
              LET old == rooms[r]
                  new == rooms'[r]
                  s == ev'.sock
              IN /\ DOMAIN rooms' = DOMAIN rooms
                 /\ new.cards = old.cards
                 /\ new.master = old.master
                 /\ new.gameStarted = old.gameStarted
                 /\ Len(new.players) = Len(old.players)
                 /\ \A i \in DOMAIN old.players :
                       /\ new.players[i].k = old.players[i].k
                       /\ old.players[i].k # s => new.players[i] = old.players[i]
                       /\ old.players[i].k = s =>
                             new.players[i].v =
                                 [old.players[i].v EXCEPT !.disconnected = TRUE,
                                                          !.disconnectedAt = {s},
                                                          !.oldSocketId = {s}]
                 /\ out' = <<>> ]_vars

C17_Witness ==
    /\ ev.op = "disconnect"
    /\ \E r \in Live :
          /\ MapHas(rooms[r].players, ev.sock)
          /\ MapGet(rooms[r].players, ev.sock).disconnected
          /\ MapGet(rooms[r].players, ev.sock).isMaster
          /\ rooms[r].master = ev.sock
          /\ rooms[r].gameStarted
          /\ MapHas(rooms[r].cards, ev.sock)
          /\ Len(rooms[r].players) >= 2

\* every e1 of the last step was emitted before every e2
Before(e1, e2) == \A i \in Emitted(e1), j \in Emitted(e2) : i < j
\* every participant of room r was sent a card_distributed in the last step
AllDealt(r) ==
    \A k \in Keys(rooms[r].players) :
        \E i \in Emitted("card_distributed") : out[i].kind = "sock" /\ out[i].id = k

\* C19: a successful distribute_cards emits every participant's
\* card_distributed and then game_started; a successful reset_game emits
\* game_reset, then every card_distributed, then game_started, and leaves
\* the room started.
C19_EmissionOrder ==
    /\ Succeeded("distribute_cards") =>
          /\ AllDealt(ev.room)
          /\ Cardinality(Emitted("game_started")) = 1
          /\ Before("card_distributed", "game_started")
    /\ Succeeded("reset_game") =>
          /\ AllDealt(ev.room)
          /\ Cardinality(Emitted("game_reset")) = 1
          /\ Cardinality(Emitted("game_started")) = 1
          /\ Before("game_reset", "card_distributed")
          /\ Before("card_distributed", "game_started")
          /\ Before("game_reset", "game_started")
          /\ rooms[ev.room].gameStarted

C19_Witness ==
    /\ Succeeded("reset_game")
    /\ Len(rooms[ev.room].players) >= 2
    /\ Len(out) = Len(rooms[ev.room].players) + 2
    /\ out[1].ev = "game_reset"
    /\ out[2].ev = "card_distributed"
    /\ out[Len(out)].ev = "game_started"

\* C20: keep_alive leaves the room store as it is (participants, their
\* connection state and isMaster flags, room.master, cards, started), emits
\* nothing, and does nothing at all for an unknown room or participant.
C20_KeepAliveNoTransition ==
    [][ ev'.op = "keep_alive" =>
          (rooms' = rooms /\ out' = <<>> /\ timers' = timers /\ sdata' = sdata) ]_vars

C20_Witness ==
    /\ ev.op = "keep_alive"
    /\ ev.room \in Live
    /\ MapHas(rooms[ev.room].players, ev.sock)
    /\ rooms[ev.room].master = ev.sock
    /\ rooms[ev.room].gameStarted
    /\ ~NoEvictionPending(ev.room)
\* a string with nothing but spaces in it
Blank(x) == \A i \in DOMAIN x : x[i] = " "

\* C21: create_room with a blank name or theme, and join_room with a blank
\* name or a room id that is not in the store, change nothing (no room is
\* created, no room is touched, the connection joins nothing) and send one
\* error, to the sender only.
C21_InvalidRejected ==
    [][ (\/ ev'.op = "create_room" /\ (Blank(ev'.name) \/ Blank(ev'.theme))
         \/ ev'.op = "join_room" /\ (Blank(ev'.name) \/ ev'.room \notin Live))
        => (/\ rooms' = rooms
            /\ sdata' = sdata
            /\ groups' = groups
            /\ Len(out') = 1
            /\ out'[1].ev = "error"
            /\ out'[1].kind = "sock"
            /\ out'[1].id = ev'.sock) ]_vars

C21_Witness ==
    /\ ev.op = "join_room"
    /\ ev.name = <<" ">>
    /\ ev.room \in Live
    /\ rooms[ev.room].gameStarted
    /\ ~MapHas(rooms[ev.room].players, ev.sock)
    /\ out = <<Error(ev.sock, "Player name is required")>>
\* what the roster shows of a participant
Shown(p) == [id |-> p.id, name |-> p.name, isMaster |-> p.isMaster]

\* C22: a matched reconnect_player re-keys one entry: the room has as many
\* participants after as before, and every participant but the matched one
\* keeps its key, name and isMaster, whoever sends the event.
C22_OneEntryRekeyed ==
    [][ ReconnectStep =>
          LET old == rooms[ev'.room].players
              new == rooms'[ev'.room].players
          IN \A p \in FindByName(old, ev'.name) :
                /\ Len(new) = Len(old)
                /\ \A i \in DOMAIN old :
                      old[i].k # p.id =>
                          /\ MapHas(new, old[i].k)
                          /\ Shown(MapGet(new, old[i].k)) = Shown(old[i].v) ]_vars
\* C24: a join_room that goes through leaves room.master and the name and
\* isMaster of every participant that was already in the room as they were,
\* whoever joins.
C24_JoinKeepsMaster ==
    [][ (/\ ev'.op = "join_room"
         /\ ev'.room \in Live
         /\ \E j \in DOMAIN out' : out'[j].ev = "room_joined")
        => LET old == rooms[ev'.room]
               new == rooms'[ev'.room]
           IN /\ new.master = old.master
              /\ \A i \in DOMAIN old.players :
                    /\ MapHas(new.players, old.players[i].k)
                    /\ Shown(MapGet(new.players, old.players[i].k)) = Shown(old.players[i].v) ]_vars
\* C25: the connection of a participant that remove_player has just removed
\* is reached by no room-wide broadcast of the next step, unless it is a
\* participant of that room again.
C25_RemovedHearsNothing ==
    [][ ev.op = "remove_player" =>
          \A i \in Emitted("player_removed") :
              \A j \in DOMAIN out' :
                  (/\ out'[j].kind = "room"
                   /\ out'[j].id \in DOMAIN rooms'
                   /\ Reaches(out'[j], out[i].id, groups'))
                  => MapHas(rooms'[out'[j].id].players, out[i].id) ]_vars
\* the rooms of the store in which connection s is a participant
RoomsWith(s) == { r \in Live : MapHas(rooms[r].players, s) }

\* C23: a connection id is a key of players in at most one room of the
\* store.
C23_InOneRoomAtMost == \A s \in DOMAIN status : Cardinality(RoomsWith(s)) <= 1
====
